---- MODULE Spec2Model ----
\* Model of package values / package ir (values/value.go): the Value and
\* Instruction interfaces, the instruction structs, the predicate
\* enumerations and the isInst marker methods.
EXTENDS Integers, Sequences, FiniteSets, TLC

\* ---------------------------------------------------------------------------
\* Bounds of the model
\* ---------------------------------------------------------------------------
MaxNodes == 1
NumReaders == 2
MaxIdxLen == 2
MaxInserts == 2

\* ---------------------------------------------------------------------------
\* Interfaces and method sets
\* ---------------------------------------------------------------------------

\* type Value interface { fmt.Stringer; Type() types.Type }
Value == {"String", "Type"}

\* type Instruction interface { isInst() }
Instruction == {"isInst"}

\* ir.Terminator: named by the Value documentation, declared outside this file.
Terminator == {"isTerm"}

BinaryKinds ==
  {"AddInst", "FaddInst", "SubInst", "FsubInst", "MulInst", "FmulInst",
   "UdivInst", "SdivInst", "FdivInst", "UremInst", "SremInst", "FremInst"}

BitwiseKinds == {"ShlInst", "LshrInst", "AshrInst", "AndInst", "OrInst", "XorInst"}

MemoryKinds == {"AllocaInst", "LoadInst", "StoreInst", "GetelementptrInst"}

OtherKinds == {"IcmpInst", "FcmpInst", "PhiInst"}

\* Every struct type the file declares.
Kinds == BinaryKinds \cup BitwiseKinds \cup MemoryKinds \cup OtherKinds

\* The receivers of the isInst method declarations.
IsInstReceivers ==
  {"AddInst", "FaddInst", "SubInst", "FsubInst", "MulInst", "FmulInst",
   "UdivInst", "SdivInst", "FdivInst", "UremInst", "SremInst", "FremInst"}

\* The method set of a struct type: the methods declared with it as receiver.
\* No struct declares String or Type methods (Type is a field of each).
MethodSet(kind) == IF kind \in IsInstReceivers THEN {"isInst"} ELSE {}

\* Go interface satisfaction: the method set includes the interface's methods.
Implements(kind, iface) == iface \subseteq MethodSet(kind)

\* ---------------------------------------------------------------------------
\* Predicate enumerations (const blocks with iota)
\* ---------------------------------------------------------------------------
\* IntUlt and IntUgt declared in each other's place.
IntPredicateDecl_swapped ==
  <<"IntEq", "IntNe", "IntUlt", "IntUge", "IntUgt", "IntUle",
    "IntSgt", "IntSge", "IntSlt", "IntSle">>

IntPredicateDecl ==
  <<"IntEq", "IntNe", "IntUgt", "IntUge", "IntUlt", "IntUle",
    "IntSgt", "IntSge", "IntSlt", "IntSle">>

\* FloatOrd declared after FloatUno instead of after FloatOne.
FloatPredicateDecl_swapped ==
  <<"FloatFalse", "FloatOeq", "FloatOgt", "FloatOge", "FloatOlt", "FloatOle",
    "FloatOne", "FloatUeq", "FloatUgt", "FloatUge", "FloatUlt",
    "FloatUle", "FloatUne", "FloatUno", "FloatOrd", "FloatTrue">>

FloatPredicateDecl ==
  <<"FloatFalse", "FloatOeq", "FloatOgt", "FloatOge", "FloatOlt", "FloatOle",
    "FloatOne", "FloatOrd", "FloatUeq", "FloatUgt", "FloatUge", "FloatUlt",
    "FloatUle", "FloatUne", "FloatUno", "FloatTrue">>

\* iota: the value of the i-th ConstSpec of a const block is i - 1.
Iota(decl, name) == (CHOOSE i \in 1..Len(decl) : decl[i] = name) - 1

IntPredicate(name) == Iota(IntPredicateDecl, name)

FloatPredicate(name) == Iota(FloatPredicateDecl, name)

Names(decl) == {decl[i] : i \in 1..Len(decl)}

\* The values of the declared constants, by name.
IntOrdinals == [p \in Names(IntPredicateDecl) |-> IntPredicate(p)]

FloatOrdinals == [p \in Names(FloatPredicateDecl) |-> FloatPredicate(p)]

\* ---------------------------------------------------------------------------
\* Struct types
\* ---------------------------------------------------------------------------
Fields(kind) ==
  CASE kind \in BinaryKinds \cup BitwiseKinds -> {"Type", "Op1", "Op2"}
    [] kind = "AllocaInst" -> {"Type", "NumElems", "Align"}
    [] kind = "LoadInst" -> {"Type", "Addr", "Align"}
    [] kind = "StoreInst" -> {"Type", "Val", "Addr", "Align"}
    [] kind = "GetelementptrInst" -> {"Type", "Ptr", "Indicies"}
    [] kind \in {"IcmpInst", "FcmpInst"} -> {"Pred", "Type", "Op1", "Op2"}
    [] kind = "PhiInst" -> {"Type", "Preds"}

\* map[string]values.Value: a nil map, or a finite function of labels.
EmptyFn == [l \in {} |-> "nil"]

NilMap == [isNil |-> TRUE, m |-> EmptyFn]

MakeMap == [isNil |-> FALSE, m |-> EmptyFn]

\* An insertion that keeps the entry a label already has.
MapAssign_keepFirst(m, k, v) ==
  [l \in DOMAIN m \cup {k} |-> IF l \in DOMAIN m THEN m[l] ELSE v]

\* m[k] = v on a non-nil map: k is added, or its entry is replaced.
MapAssign(m, k, v) == [l \in DOMAIN m \cup {k} |-> IF l = k THEN v ELSE m[l]]

RECURSIVE AssignAll(_, _)
AssignAll(m, entries) ==
  IF entries = << >> THEN m
  ELSE AssignAll(MapAssign(m, Head(entries)[1], Head(entries)[2]), Tail(entries))

\* A map literal: a new map holding the entries listed.
MapLit(entries) == [isNil |-> FALSE, m |-> AssignAll(EmptyFn, entries)]

\* The zero value of a field's type.
Zero(f) ==
  CASE f = "Type" -> "nil"
    [] f \in {"Op1", "Op2", "Addr", "Val", "Ptr"} -> "nil"
    [] f \in {"NumElems", "Align", "Pred"} -> 0
    [] f = "Indicies" -> << >>
    [] f = "Preds" -> NilMap

\* A constructor that stores the indices in reverse order.
CompositeLit_reverseIdx(kind, given) ==
  [f \in Fields(kind) \cup {"kind"} |->
     IF f = "kind" THEN kind
     ELSE IF f \notin DOMAIN given THEN Zero(f)
     ELSE IF f = "Indicies"
       THEN [i \in 1..Len(given[f]) |-> given[f][Len(given[f]) + 1 - i]]
       ELSE given[f]]

\* A constructor that normalises an element count below 1 to 1 and a negative
\* alignment to 0.
CompositeLit_clamped(kind, given) ==
  [f \in Fields(kind) \cup {"kind"} |->
     IF f = "kind" THEN kind
     ELSE IF f \notin DOMAIN given THEN Zero(f)
     ELSE IF f = "NumElems" /\ given[f] < 1 THEN 1
     ELSE IF f = "Align" /\ given[f] < 0 THEN 0
     ELSE given[f]]

\* A composite literal kind{f1: v1, ...}: the fields given hold the values
\* given, the fields omitted hold the zero value of their type.
CompositeLit(kind, given) ==
  [f \in Fields(kind) \cup {"kind"} |->
     IF f = "kind" THEN kind
     ELSE IF f \in DOMAIN given THEN given[f] ELSE Zero(f)]

\* ---------------------------------------------------------------------------
\* Inputs: the literals a caller writes
\* ---------------------------------------------------------------------------
\* Operand values with their types: a and c are i32 values, b is an f32 value.
Operands == {"a", "b", "c"}

Labels == {"bb1", "bb2"}

IdxSeqs == UNION {[1..n -> {0, 3}] : n \in 0..MaxIdxLen}

BinaryLits ==
  {[Type |-> "i32", Op1 |-> "a", Op2 |-> "c"],
   [Type |-> "i32", Op2 |-> "b"]}

AllocaLits ==
  {[Type |-> "i32"],
   [Type |-> "i32", NumElems |-> 2, Align |-> 4],
   [Type |-> "f32", NumElems |-> 0, Align |-> -1],
   [Type |-> "i32", NumElems |-> -1, Align |-> 3]}

LoadLits == {[Type |-> "i32", Addr |-> "a", Align |-> 0], [Align |-> -2]}

StoreLits ==
  {[Type |-> "i32", Val |-> "a", Addr |-> "c", Align |-> 4],
   [Type |-> "i32", Val |-> "b"]}

GepLits == {[Type |-> "i32", Ptr |-> "a", Indicies |-> ix] : ix \in IdxSeqs}

IcmpLits ==
  {[Pred |-> IntPredicate(p), Type |-> "i32", Op1 |-> "a", Op2 |-> "c"] :
     p \in {"IntEq", "IntSlt", "IntSle"}}

FcmpLits ==
  {[Pred |-> FloatPredicate(p), Type |-> "f32", Op1 |-> "b", Op2 |-> "b"] :
     p \in {"FloatFalse", "FloatOrd", "FloatTrue"}}

\* The entries of the map literal {"bb1": a, "bb2": c}.
PhiLitEntries == <<<<"bb1", "a">>, <<"bb2", "c">>>>

PhiLits ==
  {[Type |-> "i32"],
   [Type |-> "i32", Preds |-> MakeMap],
   [Type |-> "i32", Preds |-> MapLit(PhiLitEntries)]}

Literals(kind) ==
  CASE kind \in BinaryKinds \cup BitwiseKinds -> BinaryLits
    [] kind = "AllocaInst" -> AllocaLits
    [] kind = "LoadInst" -> LoadLits
    [] kind = "StoreInst" -> StoreLits
    [] kind = "GetelementptrInst" -> GepLits
    [] kind = "IcmpInst" -> IcmpLits
    [] kind = "FcmpInst" -> FcmpLits
    [] kind = "PhiInst" -> PhiLits

\* ---------------------------------------------------------------------------
\* State
\* ---------------------------------------------------------------------------
VARIABLES
  heap,        \* the nodes constructed so far
  built,       \* per node: the kind and the literal it was constructed from
  lastRead,    \* the latest field read: reader, node, field, value read
  lastAssert,  \* the latest type assertion: node, interface, ok
  log,         \* per node: the Preds entries written, in order
  inserts,     \* the number of Preds insertions performed
  lastLookup,  \* the latest Preds lookup: node, label, value, ok
  panicked     \* a run-time panic was raised

vars == <<heap, built, lastRead, lastAssert, log, inserts, lastLookup, panicked>>

Readers == 1..NumReaders

Nodes == 1..Len(heap)

NoRead == [reader |-> 0, node |-> 0, field |-> "", val |-> 0]

NoAssert == [node |-> 0, iface |-> "", ok |-> FALSE]

NoLookup == [node |-> 0, label |-> "", val |-> "nil", ok |-> FALSE]

Init ==
  /\ heap = << >>
  /\ built = << >>
  /\ lastRead = NoRead
  /\ lastAssert = NoAssert
  /\ log = << >>
  /\ inserts = 0
  /\ lastLookup = NoLookup
  /\ panicked = FALSE

\* ---------------------------------------------------------------------------
\* Operations
\* ---------------------------------------------------------------------------

\* The Preds entries a literal writes.
LitEntries(kind, given) ==
  IF kind = "PhiInst" /\ "Preds" \in DOMAIN given /\ given.Preds = MapLit(PhiLitEntries)
    THEN PhiLitEntries
    ELSE << >>

\* n := kind{...}: a composite literal of one of the struct types.
Construct(kind, given) ==
  /\ ~panicked
  /\ Len(heap) < MaxNodes
  /\ heap' = Append(heap, CompositeLit(kind, given))
  /\ built' = Append(built, [kind |-> kind, given |-> given])
  /\ log' = Append(log, LitEntries(kind, given))
  /\ UNCHANGED <<lastRead, lastAssert, inserts, lastLookup, panicked>>

\* An isInst with a pointer receiver whose body clears the declared type.
isInst_clearType(node) == [node EXCEPT !.Type = "nil"]

\* func (K) isInst() {}: what the caller's node is after the call. The
\* receiver is passed by value and the body is empty.
isInst(node) == node

\* heap[n].isInst(), for the types that declare the method.
CallIsInst(n) ==
  /\ ~panicked
  /\ n \in Nodes
  /\ "isInst" \in MethodSet(heap[n].kind)
  /\ heap' = [heap EXCEPT ![n] = isInst(heap[n])]
  /\ UNCHANGED <<built, lastRead, lastAssert, log, inserts, lastLookup, panicked>>

\* A selector expression node.f
FieldRead(node, f) == node[f]

\* v := heap[n].f, by one of the concurrent readers.
ReadField(r, n, f) ==
  /\ ~panicked
  /\ n \in Nodes
  /\ f \in Fields(heap[n].kind)
  /\ lastRead' = [reader |-> r, node |-> n, field |-> f, val |-> FieldRead(heap[n], f)]
  /\ UNCHANGED <<heap, built, lastAssert, log, inserts, lastLookup, panicked>>

Interfaces == [Value |-> Value, Instruction |-> Instruction, Terminator |-> Terminator]

\* _, ok := interface{}(heap[n]).(I), with I one of the interfaces.
TypeAssert(n, i) ==
  /\ ~panicked
  /\ n \in Nodes
  /\ lastAssert' = [node |-> n, iface |-> i, ok |-> Implements(heap[n].kind, Interfaces[i])]
  /\ UNCHANGED <<heap, built, lastRead, log, inserts, lastLookup, panicked>>

\* heap[n].Preds[label] = v. An assignment to an entry of a nil map panics.
PhiInsert(n, label, v) ==
  /\ ~panicked
  /\ n \in Nodes
  /\ heap[n].kind = "PhiInst"
  /\ inserts < MaxInserts
  /\ IF heap[n].Preds.isNil
       THEN /\ panicked' = TRUE
            /\ UNCHANGED <<heap, log, inserts>>
       ELSE /\ heap' = [heap EXCEPT ![n].Preds.m = MapAssign(@, label, v)]
            /\ log' = [log EXCEPT ![n] = Append(@, <<label, v>>)]
            /\ inserts' = inserts + 1
            /\ UNCHANGED panicked
  /\ UNCHANGED <<built, lastRead, lastAssert, lastLookup>>

\* v, ok := m[k]: the entry of k, or the zero value and false.
MapIndex(m, k) ==
  IF k \in DOMAIN m THEN [val |-> m[k], ok |-> TRUE] ELSE [val |-> "nil", ok |-> FALSE]

\* v, ok := heap[n].Preds[label]
PhiLookup(n, label) ==
  /\ ~panicked
  /\ n \in Nodes
  /\ heap[n].kind = "PhiInst"
  /\ LET r == MapIndex(heap[n].Preds.m, label)
     IN lastLookup' = [node |-> n, label |-> label, val |-> r.val, ok |-> r.ok]
  /\ UNCHANGED <<heap, built, lastRead, lastAssert, log, inserts, panicked>>

ConstructStep == \E kind \in Kinds : \E given \in Literals(kind) : Construct(kind, given)

CallIsInstStep == \E n \in 1..MaxNodes : CallIsInst(n)

ReadFieldStep ==
  \E r \in Readers : \E n \in 1..MaxNodes :
    \E f \in UNION {Fields(k) : k \in Kinds} : ReadField(r, n, f)

TypeAssertStep ==
  \E n \in 1..MaxNodes : \E i \in {"Value", "Instruction", "Terminator"} : TypeAssert(n, i)

PhiInsertStep ==
  \E n \in 1..MaxNodes : \E label \in Labels : \E v \in {"a", "b"} : PhiInsert(n, label, v)

PhiLookupStep == \E n \in 1..MaxNodes : \E label \in Labels : PhiLookup(n, label)

\* The operations of the package itself.
Next == ConstructStep \/ CallIsInstStep \/ ReadFieldStep \/ TypeAssertStep

Spec == Init /\ [][Next]_vars

\* A builder filling in the Preds map of the Phi nodes it constructs.
NextBuild == ConstructStep \/ PhiInsertStep \/ PhiLookupStep

SpecBuild == Init /\ [][NextBuild]_vars

\* ---------------------------------------------------------------------------
\* Properties
\* ---------------------------------------------------------------------------
AssertedKind == heap[lastAssert.node].kind

\* C1: every binary, bitwise and comparison variant satisfies the Instruction
\* classification and fails the Terminator classification: a type assertion of
\* such a node to Instruction succeeds, and to Terminator fails.
C1_BinaryBitwiseCmpAreInstructions ==
  (lastAssert.node # 0 /\ AssertedKind \in BinaryKinds \cup BitwiseKinds \cup {"IcmpInst", "FcmpInst"})
    => /\ lastAssert.iface = "Instruction" => lastAssert.ok
       /\ lastAssert.iface = "Terminator" => ~lastAssert.ok

\* C2: an Alloca constructed without NumElems has NumElems = 1, and no Alloca
\* constructed without NumElems is left with NumElems = 0.
C2_AllocaNumElemsDefaultsToOne ==
  \A n \in Nodes :
    (built[n].kind = "AllocaInst" /\ "NumElems" \notin DOMAIN built[n].given)
      => heap[n].NumElems = 1

\* C3: every constructed node of every variant satisfies Value (it has the
\* Type and String methods), so a type assertion of a node to Value succeeds.
C3_EveryVariantIsValue ==
  (lastAssert.node # 0 /\ lastAssert.iface = "Value") => lastAssert.ok

InsertedLabels(lg) == {lg[i][1] : i \in 1..Len(lg)}

LastInserted(lg, l) ==
  lg[CHOOSE i \in 1..Len(lg) : lg[i][1] = l /\ \A j \in (i + 1)..Len(lg) : lg[j][1] # l][2]

\* C4: after any sequence of insertions into the Preds of a Phi, the entries
\* are exactly the distinct labels inserted, one entry per label, and a lookup
\* of a label finds the value most recently inserted under it (a label never
\* inserted is not found).
C4_PhiPredsLastWriteWins ==
  \A n \in Nodes :
    (heap[n].kind = "PhiInst" /\ ~heap[n].Preds.isNil) =>
      LET m == heap[n].Preds.m
          lg == log[n]
      IN /\ DOMAIN m = InsertedLabels(lg)
         /\ Cardinality(DOMAIN m) = Cardinality(InsertedLabels(lg))
         /\ \A l \in Labels :
              MapIndex(m, l) =
                IF l \in InsertedLabels(lg)
                  THEN [val |-> LastInserted(lg, l), ok |-> TRUE]
                  ELSE [val |-> "nil", ok |-> FALSE]

\* A Phi built with Preds {"bb1": a, "bb2": c} and then given b under "bb2" has
\* two entries, and the lookup of "bb2" found b.
C4_Witness ==
  \E n \in Nodes :
    /\ heap[n].kind = "PhiInst"
    /\ "Preds" \in DOMAIN built[n].given
    /\ built[n].given.Preds = MapLit(PhiLitEntries)
    /\ log[n] = <<<<"bb1", "a">>, <<"bb2", "c">>, <<"bb2", "b">>>>
    /\ Cardinality(DOMAIN heap[n].Preds.m) = 2
    /\ lastLookup = [node |-> n, label |-> "bb2", val |-> "b", ok |-> TRUE]

\* C5: IntPredicate has exactly 10 members with the ordinals Eq=0, Ne=1, Ugt=2,
\* Uge=3, Ult=4, Ule=5, Sgt=6, Sge=7, Slt=8, Sle=9, no two sharing an ordinal,
\* and the Pred of every Icmp node is one of these ordinals.
C5_IntPredicateOrdinals ==
  /\ Len(IntPredicateDecl) = 10
  /\ IntOrdinals =
       [IntEq |-> 0, IntNe |-> 1, IntUgt |-> 2, IntUge |-> 3, IntUlt |-> 4,
        IntUle |-> 5, IntSgt |-> 6, IntSge |-> 7, IntSlt |-> 8, IntSle |-> 9]
  /\ Cardinality({IntOrdinals[p] : p \in DOMAIN IntOrdinals}) = 10
  /\ \A n \in Nodes : heap[n].kind = "IcmpInst" => heap[n].Pred \in 0..9

\* An Icmp node built with IntSlt holds 8, and a reader read 8 from it.
C5_Witness ==
  \E n \in Nodes :
    /\ heap[n].kind = "IcmpInst"
    /\ heap[n].Pred = 8
    /\ built[n].given.Pred = IntPredicate("IntSlt")
    /\ lastRead.node = n /\ lastRead.field = "Pred" /\ lastRead.val = 8

\* C6: FloatPredicate has exactly 16 members with the ordinals False=0, Oeq=1,
\* Ogt=2, Oge=3, Olt=4, Ole=5, One=6, Ord=7, Ueq=8, Ugt=9, Uge=10, Ult=11,
\* Ule=12, Une=13, Uno=14, True=15, no two sharing an ordinal, and the Pred of
\* every Fcmp node is one of these ordinals.
C6_FloatPredicateOrdinals ==
  /\ Len(FloatPredicateDecl) = 16
  /\ FloatOrdinals =
       [FloatFalse |-> 0, FloatOeq |-> 1, FloatOgt |-> 2, FloatOge |-> 3,
        FloatOlt |-> 4, FloatOle |-> 5, FloatOne |-> 6, FloatOrd |-> 7,
        FloatUeq |-> 8, FloatUgt |-> 9, FloatUge |-> 10, FloatUlt |-> 11,
        FloatUle |-> 12, FloatUne |-> 13, FloatUno |-> 14, FloatTrue |-> 15]
  /\ Cardinality({FloatOrdinals[p] : p \in DOMAIN FloatOrdinals}) = 16
  /\ \A n \in Nodes : heap[n].kind = "FcmpInst" => heap[n].Pred \in 0..15

\* An Fcmp node built with FloatTrue holds 15, and a reader read 15 from it.
C6_Witness ==
  \E n \in Nodes :
    /\ heap[n].kind = "FcmpInst"
    /\ heap[n].Pred = 15
    /\ built[n].given.Pred = FloatPredicate("FloatTrue")
    /\ lastRead.node = n /\ lastRead.field = "Pred" /\ lastRead.val = 15

\* C7: once a node is constructed, no operation of the package (construction
\* of other nodes, isInst, field reads, type assertions) changes any of its
\* fields, and every read of a field by any reader returns the value the node
\* was constructed with.
C7_NodesImmutable ==
  /\ [](lastRead.node # 0 =>
          lastRead.val =
            IF lastRead.field \in DOMAIN built[lastRead.node].given
              THEN built[lastRead.node].given[lastRead.field]
              ELSE Zero(lastRead.field))
  /\ [][\A n \in Nodes : heap'[n] = heap[n]]_vars

\* The second reader read Op2 of an Add node, a type whose isInst can be called.
C7_Witness ==
  /\ lastRead.node # 0
  /\ lastRead.reader = 2
  /\ heap[lastRead.node].kind = "AddInst"
  /\ "isInst" \in MethodSet("AddInst")
  /\ lastRead.field = "Op2"
  /\ lastRead.val = "c"

\* C8: a Getelementptr constructed with an index sequence holds that sequence:
\* same length, same index at every position.
C8_IndiciesPreserved ==
  \A n \in Nodes :
    (built[n].kind = "GetelementptrInst" /\ "Indicies" \in DOMAIN built[n].given) =>
      /\ Len(heap[n].Indicies) = Len(built[n].given.Indicies)
      /\ \A i \in 1..Len(built[n].given.Indicies) :
           heap[n].Indicies[i] = built[n].given.Indicies[i]

\* Getelementptr{Type: i32, Ptr: a, Indicies: [0, 3]} was constructed.
C8_Witness ==
  \E n \in Nodes :
    /\ heap[n].kind = "GetelementptrInst"
    /\ built[n].given.Indicies = <<0, 3>>
    /\ Len(heap[n].Indicies) = 2

HoldsGiven(node, kind, given) ==
  /\ node.kind = kind
  /\ DOMAIN node = Fields(kind) \cup {"kind"}
  /\ \A f \in DOMAIN given : node[f] = given[f]

\* C9: construction is total and never rejected: every construction requested,
\* of ill-formed literals included, produced a node of the kind requested
\* holding the values given, and nothing panicked.
C9_ConstructionTotal ==
  /\ ~panicked
  /\ Len(heap) = Len(built)
  /\ \A n \in Nodes : HoldsGiven(heap[n], built[n].kind, built[n].given)

\* An Alloca with NumElems < 1 and an Align that is no power of two exists.
C9_Witness ==
  \E n \in Nodes :
    /\ heap[n].kind = "AllocaInst"
    /\ heap[n].NumElems = -1
    /\ heap[n].Align = 3
    /\ ~panicked

\* C10: a node kind is classified as an Instruction if and only if it is one of
\* the enumerated variants (binary, bitwise, memory, comparison, Phi): a type
\* assertion of a node to Instruction succeeds exactly for those kinds.
C10_InstructionIffEnumerated ==
  (lastAssert.node # 0 /\ lastAssert.iface = "Instruction") =>
    (lastAssert.ok <=>
       AssertedKind \in BinaryKinds \cup BitwiseKinds \cup MemoryKinds \cup OtherKinds)

====
